---- MODULE Spec2Model ----
(***************************************************************************)
(* The connection orchestrator of VoiceProvider                            *)
(* (packages/embed-react/src/index.ts): the status / error state machine   *)
(* driven by connect(), disconnect(disconnectOnError?), the collaborators' *)
(* error callbacks and the fail-over effect.                               *)
(*                                                                         *)
(* One action is one run of JavaScript between two suspension points: a    *)
(* consumer call, the continuation of an await, or a collaborator          *)
(* callback.  React batches the state updates of such a run, renders, and  *)
(* flushes the effect of lines 266-276 before the next task runs, so each  *)
(* action ends with the fail-over effect (Render).  Consumer calls use the *)
(* callbacks of the latest render.                                         *)
(***************************************************************************)
EXTENDS Integers, Sequences, FiniteSets, TLC

\* ------------------------------------------------------------------ bounds
MaxAttempts == 2        \* connect() calls in one run

\* --------------------------------------------------------------- constants
NoReason == "<absent>"
Null == [type |-> "null", message |-> NoReason]    \* error === null
PermissionDeniedMessage == "Microphone permission denied"
ConnectFailedMessage == "We could not connect to the voice. Please try again."
Messages == {"lost connection", "decode failed"}
StatusValues == {"disconnected", "connecting", "connected", "error"}

VARIABLES
  status,         \* useState<VoiceStatus>: [value, reason]
  error,          \* useState<VoiceError | null>: Null or [type, message]
  micPermission,  \* useEncoding().permission
  attempts,       \* the connect() calls so far: <<[pc, log, clean], ...>>;
                  \* a finished call is kept as Finished, its record in lastOp.att
  collab,         \* the collaborators: [client, mic, player] live flags
  calls,          \* the collaborator / callback calls of the last step
  lastOp          \* the last step: [op, id, arg, prev, att]

vars == <<status, error, micPermission, attempts, collab, calls, lastOp>>

\* ------------------------------------------------------------------- types
VoiceStatus(v) == [value |-> v, reason |-> NoReason]
ErrorStatus(r) == [value |-> "error", reason |-> r]
VoiceError(t, m) == [type |-> t, message |-> m]

Has(log, e) == \E k \in 1..Len(log) : log[k] = e
Pos(log, e) == IF Has(log, e) THEN CHOOSE k \in 1..Len(log) : log[k] = e ELSE 0
RECURSIVE ApplyCalls(_, _)

\* ----------------------------------------------------------- collaborators
\* What a teardown call does to its collaborator.
ApplyCall(co, c) ==
  CASE c = "client.disconnect" -> [co EXCEPT !.client = FALSE]
    [] c = "mic.stop"          -> [co EXCEPT !.mic = FALSE]
    [] c = "player.stopAll"    -> [co EXCEPT !.player = FALSE]
    [] OTHER                   -> co

ApplyCalls(co, cs) ==
  IF cs = <<>> THEN co ELSE ApplyCalls(ApplyCall(co, Head(cs)), Tail(cs))

\* A settled promise's effect on its collaborator.
Settle(co, what, res) ==
  CASE what = "client.connect" /\ res = "ok"          -> [co EXCEPT !.client = TRUE]
    [] what = "mic.start" /\ res = "fulfilled"        -> [co EXCEPT !.mic = TRUE]
    [] what = "player.initPlayer" /\ res = "fulfilled" -> [co EXCEPT !.player = TRUE]
    [] OTHER                                           -> co

\* useEncoding: the permission state before any request, and after a
\* getStream() that returned p (the hook keeps the last answer).
InitialPermission == "prompt"
PermissionAfter(p) == p

\* ------------------------------------------------------------ updateError
\* Variant: the null test is inverted.
updateErrorCalls_Inverted(err) == IF err = Null THEN <<"onError">> ELSE <<>>

\* updateError(err): setError(err); onError.current(err) when err is not null.
updateErrorCalls(err) == IF err # Null THEN <<"onError">> ELSE <<>>

\* ------------------------------------------------------ disconnectFromVoice
\* Variant: the teardown forgets mic.stop().
disconnectFromVoice_NoMicStop ==
  <<"client.disconnect", "player.stopAll", "messageStore.disconnect">>

disconnectFromVoice ==
  <<"client.disconnect", "player.stopAll", "mic.stop", "messageStore.disconnect">>

\* ------------------------------------------------------- fail-over effect
\* Variant: the effect fires only while connecting.
FailOverFires_ConnectingOnly(st, err) == err # Null /\ st.value = "connecting"

\* Variant: the effect fires only once connected.
FailOverFires_ConnectedOnly(st, err) == err # Null /\ st.value = "connected"

\* Variant: the effect fires again when a newer error has another message.
FailOverFires_LatestWins(st, err) ==
  /\ err # Null
  /\ st.value # "disconnected"
  /\ st.value = "error" => st.reason # err.message

FailOverFires(st, err) ==
  err # Null /\ st.value # "error" /\ st.value # "disconnected"

\* Variant: the effect sets the error status without its reason.
FailOverStatus_NoReason(st, err) ==
  IF FailOverFires(st, err) THEN [value |-> "error", reason |-> NoReason] ELSE st

FailOverStatus(st, err) ==
  IF FailOverFires(st, err) THEN [value |-> "error", reason |-> err.message] ELSE st

FailOverCalls(st, err) ==
  IF FailOverFires(st, err) THEN disconnectFromVoice ELSE <<>>

\* Variant: the effect also clears the error it has shown.
Render_ClearsError(st, err, cl, co) ==
  /\ status' = FailOverStatus(st, err)
  /\ error' = IF FailOverFires(st, err) THEN Null ELSE err
  /\ calls' = cl \o FailOverCalls(st, err)
  /\ collab' = ApplyCalls(co, cl \o FailOverCalls(st, err))

\* The render that follows a run of the handlers: st, err are the batched
\* state updates, cl the calls the handler made, co the collaborators after
\* the settlement (if any) that woke the handler.
Render(st, err, cl, co) ==
  /\ status' = FailOverStatus(st, err)
  /\ error' = err
  /\ calls' = cl \o FailOverCalls(st, err)
  /\ collab' = ApplyCalls(co, cl \o FailOverCalls(st, err))

\* ---------------------------------------------------------------- connect
\* Variant: getStream() is issued before the error is cleared.
ConnectPrologue_StreamFirst ==
  [log |-> <<"getStream", "updateError(null)", "setStatus(connecting)">>,
   err |-> Null, st |-> VoiceStatus("connecting"), calls |-> <<"getStream">>]

\* Variant: connect() does not clear the error.
ConnectPrologue_KeepError ==
  [log |-> <<"setStatus(connecting)", "getStream">>,
   err |-> error, st |-> VoiceStatus("connecting"), calls |-> <<"getStream">>]

\* What connect() does up to its first await (lines 200-202).
ConnectPrologue ==
  [log |-> <<"updateError(null)", "setStatus(connecting)", "getStream">>,
   err |-> Null, st |-> VoiceStatus("connecting"),
   calls |-> updateErrorCalls(Null) \o <<"getStream">>]

\* A continuation of connect(): what it logs, the error it raises (setErr),
\* the status it sets (setSt), the calls it makes and where it stops next.
Continue(log, cl, pc) ==
  [log |-> log \o cl, setErr |-> FALSE, err |-> Null,
   setSt |-> FALSE, st |-> VoiceStatus("connecting"), calls |-> cl, pc |-> pc]

Fail(log, err) ==
  [log |-> log \o <<"updateError(" \o err.type \o ")">>, setErr |-> TRUE, err |-> err,
   setSt |-> FALSE, st |-> VoiceStatus("connecting"),
   calls |-> updateErrorCalls(err), pc |-> "done"]

\* Variant: the denied branch lacks its return.
AfterGetStream_NoReturn(permission) ==
  IF permission = "denied"
  THEN [Fail(<<>>, VoiceError("mic_error", PermissionDeniedMessage))
          EXCEPT !.log = @ \o <<"client.connect">>,
                 !.calls = @ \o <<"client.connect">>,
                 !.pc = "clientConnect"]
  ELSE Continue(<<>>, <<"client.connect">>, "clientConnect")

\* lines 204-219: after `await getStream()`
AfterGetStream(permission) ==
  IF permission = "denied"
  THEN Fail(<<>>, VoiceError("mic_error", PermissionDeniedMessage))
  ELSE Continue(<<>>, <<"client.connect">>, "clientConnect")

\* Variant: a rejected transport connect is tried again.
AfterClientConnect_Retry(res) ==
  IF res # "ok"
  THEN [Fail(<<>>, VoiceError("socket_error", ConnectFailedMessage))
          EXCEPT !.log = @ \o <<"client.connect">>,
                 !.calls = @ \o <<"client.connect">>,
                 !.pc = "clientConnect"]
  ELSE Continue(<<>>, <<"mic.start", "player.initPlayer">>, "join")

\* Variant: the rejected branch lacks its return.
AfterClientConnect_NoReturn(res) ==
  IF res # "ok"
  THEN [Fail(<<>>, VoiceError("socket_error", ConnectFailedMessage))
          EXCEPT !.log = @ \o <<"mic.start", "player.initPlayer">>,
                 !.calls = @ \o <<"mic.start", "player.initPlayer">>,
                 !.pc = "join"]
  ELSE Continue(<<>>, <<"mic.start", "player.initPlayer">>, "join")

\* lines 221-232: after `await client.connect(...).then().catch()`
AfterClientConnect(res) ==
  IF res # "ok"
  THEN Fail(<<>>, VoiceError("socket_error", ConnectFailedMessage))
  ELSE Continue(<<>>, <<"mic.start", "player.initPlayer">>, "join")

\* Variant: a rejected startup is reported as an error.
AfterJoin_RaisesError(micPromise, playerPromise) ==
  IF micPromise = "fulfilled" /\ playerPromise = "fulfilled"
  THEN [Continue(<<"setStatus(connected)">>, <<>>, "done")
          EXCEPT !.setSt = TRUE, !.st = VoiceStatus("connected")]
  ELSE Fail(<<>>, VoiceError("audio_error", ConnectFailedMessage))

\* Variant: one fulfilled startup is enough (|| for &&).
AfterJoin_Either(micPromise, playerPromise) ==
  IF micPromise = "fulfilled" \/ playerPromise = "fulfilled"
  THEN [Continue(<<"setStatus(connected)">>, <<>>, "done")
          EXCEPT !.setSt = TRUE, !.st = VoiceStatus("connected")]
  ELSE Continue(<<>>, <<>>, "done")

\* lines 234-239: after `await Promise.allSettled([...])`
AfterJoin(micPromise, playerPromise) ==
  IF micPromise = "fulfilled" /\ playerPromise = "fulfilled"
  THEN [Continue(<<"setStatus(connected)">>, <<>>, "done")
          EXCEPT !.setSt = TRUE, !.st = VoiceStatus("connected")]
  ELSE Continue(<<>>, <<>>, "done")

\* ------------------------------------------------------------- disconnect
\* Variant: disconnectOnError is not read.
disconnectStatus_IgnoreFlag(st, permission, disconnectOnError) ==
  IF st.value # "error"
  THEN VoiceStatus("disconnected")
  ELSE IF permission = "denied" THEN ErrorStatus(PermissionDeniedMessage) ELSE st

\* lines 251-261: the status disconnect(disconnectOnError) leaves batched:
\* the setStatus of line 260, when it runs, overwrites that of line 252.
disconnectStatus(st, permission, disconnectOnError) ==
  IF st.value # "error" /\ ~disconnectOnError
  THEN VoiceStatus("disconnected")
  ELSE IF permission = "denied" THEN ErrorStatus(PermissionDeniedMessage) ELSE st

\* ------------------------------------------------------------ bookkeeping
InFlight(a) == a.pc # "done"

\* An error raised or a disconnect() called while an attempt is in flight.
Disturb(as) == [k \in 1..Len(as) |->
                  IF InFlight(as[k]) THEN [as[k] EXCEPT !.clean = FALSE] ELSE as[k]]

\* A connect() call that returned, and the record of a step of no call.
Finished == [pc |-> "done", log |-> <<>>, clean |-> TRUE]
NoAttempt == [pc |-> "none", log |-> <<>>, clean |-> TRUE]

\* The step taken: the operation, the connect() call it belongs to (id, att:
\* the call's record after the step), its input and the status before it.
Op(op, id, arg, att) ==
  [op |-> op, id |-> id, arg |-> arg, prev |-> status, att |-> att]

\* ------------------------------------------------------------------- Init
Init ==
  /\ status = VoiceStatus("disconnected")
  /\ error = Null
  /\ micPermission = InitialPermission
  /\ attempts = <<>>
  /\ collab = [client |-> FALSE, mic |-> FALSE, player |-> FALSE]
  /\ calls = <<>>
  /\ lastOp = [op |-> "init", id |-> 0, arg |-> "", prev |-> VoiceStatus("disconnected"),
               att |-> NoAttempt]

\* Variant: connect() returns at once while another call is in flight.
Connect_Guarded ==
  /\ Len(attempts) < MaxAttempts
  /\ \A k \in 1..Len(attempts) : ~InFlight(attempts[k])
  /\ attempts' = Append(attempts,
                        [pc |-> "getStream", log |-> ConnectPrologue.log, clean |-> TRUE])
  /\ Render(ConnectPrologue.st, ConnectPrologue.err, ConnectPrologue.calls, collab)
  /\ lastOp' = Op("connect", Len(attempts) + 1, "", attempts'[Len(attempts) + 1])
  /\ UNCHANGED micPermission

\* ---------------------------------------------------------------- actions
\* The consumer calls connect().
Connect ==
  /\ Len(attempts) < MaxAttempts
  /\ attempts' = Append(attempts,
                        [pc |-> "getStream", log |-> ConnectPrologue.log, clean |-> TRUE])
  /\ Render(ConnectPrologue.st, ConnectPrologue.err, ConnectPrologue.calls, collab)
  /\ lastOp' = Op("connect", Len(attempts) + 1, "", attempts'[Len(attempts) + 1])
  /\ UNCHANGED micPermission

\* Attempt i wakes with continuation k, after the event ev was logged.
Resumed(i, ev, k) == [attempts[i] EXCEPT !.pc = k.pc, !.log = @ \o <<ev>> \o k.log]

Resume(i, ev, k, co) ==
  LET others == IF k.setErr THEN Disturb(attempts) ELSE attempts
  IN /\ attempts' = [others EXCEPT
                       ![i] = IF k.pc = "done" THEN Finished ELSE Resumed(i, ev, k)]
     /\ Render(IF k.setSt THEN k.st ELSE status,
               IF k.setErr THEN k.err ELSE error,
               k.calls, co)

\* getStream() of attempt i resolves with permission p.
GetStreamSettles(i) ==
  /\ i \in 1..Len(attempts)
  /\ attempts[i].pc = "getStream"
  /\ \E p \in {"granted", "denied"} :
       /\ micPermission' = PermissionAfter(p)
       /\ Resume(i, "getStream:" \o p, AfterGetStream(p), collab)
       /\ lastOp' = Op("getStreamSettled", i, p, Resumed(i, "getStream:" \o p, AfterGetStream(p)))

\* client.connect() of attempt i resolves or rejects.
ClientConnectSettles(i) ==
  /\ i \in 1..Len(attempts)
  /\ attempts[i].pc = "clientConnect"
  /\ \E r \in {"ok", "rejected"} :
       /\ Resume(i, "client.connect:" \o r, AfterClientConnect(r),
                 Settle(collab, "client.connect", r))
       /\ lastOp' = Op("clientConnectSettled", i, r,
                       Resumed(i, "client.connect:" \o r, AfterClientConnect(r)))
  /\ UNCHANGED micPermission

Outcome(log, what) ==
  IF Has(log, what \o ":fulfilled") THEN "fulfilled"
  ELSE IF Has(log, what \o ":rejected") THEN "rejected"
  ELSE "pending"

\* One branch of Promise.allSettled settles; the join resumes connect()
\* once both have.
Joined(i, what, other, r) ==
  LET o == Outcome(attempts[i].log, other)
  IN IF o = "pending"
     THEN Continue(<<>>, <<>>, "join")
     ELSE AfterJoin(IF what = "mic.start" THEN r ELSE o,
                    IF what = "mic.start" THEN o ELSE r)

BranchSettles(i, what, other, r, op) ==
  /\ Resume(i, what \o ":" \o r, Joined(i, what, other, r), Settle(collab, what, r))
  /\ lastOp' = Op(op, i, r, Resumed(i, what \o ":" \o r, Joined(i, what, other, r)))

MicStartSettles(i) ==
  /\ i \in 1..Len(attempts)
  /\ attempts[i].pc = "join"
  /\ Outcome(attempts[i].log, "mic.start") = "pending"
  /\ \E r \in {"fulfilled", "rejected"} :
       BranchSettles(i, "mic.start", "player.initPlayer", r, "micStartSettled")
  /\ UNCHANGED micPermission

PlayerInitSettles(i) ==
  /\ i \in 1..Len(attempts)
  /\ attempts[i].pc = "join"
  /\ Outcome(attempts[i].log, "player.initPlayer") = "pending"
  /\ \E r \in {"fulfilled", "rejected"} :
       BranchSettles(i, "player.initPlayer", "mic.start", r, "playerInitSettled")
  /\ UNCHANGED micPermission

\* Variant: disconnect() cancels the connect() calls in flight.
Disconnect_Cancels ==
  \E disconnectOnError \in BOOLEAN :
    /\ Render(disconnectStatus(status, micPermission, disconnectOnError),
              error, disconnectFromVoice, collab)
    /\ attempts' = [k \in 1..Len(attempts) |-> Finished]
    /\ lastOp' = Op("disconnect", 0, IF disconnectOnError THEN "true" ELSE "false", NoAttempt)
    /\ UNCHANGED micPermission

\* The consumer calls disconnect(disconnectOnError).
Disconnect ==
  \E disconnectOnError \in BOOLEAN :
    /\ Render(disconnectStatus(status, micPermission, disconnectOnError),
              error, disconnectFromVoice, collab)
    /\ attempts' = Disturb(attempts)
    /\ lastOp' = Op("disconnect", 0, IF disconnectOnError THEN "true" ELSE "false", NoAttempt)
    /\ UNCHANGED micPermission

\* A collaborator reports an error through its onError callback.
Callback(op, type) ==
  /\ \E m \in Messages :
       /\ Render(status, VoiceError(type, m), updateErrorCalls(VoiceError(type, m)), collab)
       /\ lastOp' = Op(op, 0, m, NoAttempt)
  /\ attempts' = Disturb(attempts)
  /\ UNCHANGED micPermission

\* Variant: the sound player's error is classified as a socket error.
OnPlayerError_AsSocket == Callback("onPlayerError", "socket_error")

OnClientError == Callback("onClientError", "socket_error")
OnPlayerError == Callback("onPlayerError", "audio_error")
OnMicError == Callback("onMicError", "mic_error")

Next ==
  \/ Connect
  \/ \E i \in 1..MaxAttempts : GetStreamSettles(i)
  \/ \E i \in 1..MaxAttempts : ClientConnectSettles(i)
  \/ \E i \in 1..MaxAttempts : MicStartSettles(i)
  \/ \E i \in 1..MaxAttempts : PlayerInitSettles(i)
  \/ Disconnect
  \/ OnClientError
  \/ OnPlayerError
  \/ OnMicError

Spec == Init /\ [][Next]_vars

\* ----------------------------------------------------------------- claims
\* The connect() calls whose record the state holds: those in flight and the
\* one that took the last step.
Known == {attempts[k] : k \in {j \in 1..Len(attempts) : InFlight(attempts[j])}}
           \cup {lastOp.att}
Teardown == {"client.disconnect", "player.stopAll", "mic.stop", "messageStore.disconnect"}
AllStopped == [client |-> FALSE, mic |-> FALSE, player |-> FALSE]
Live(v) == v \in {"connecting", "connected"}

\* C1: status.value is always one of disconnected, connecting, connected,
\* error, and a reason is present exactly when status.value is error.
C1_StatusWellFormed ==
  /\ status.value \in StatusValues
  /\ (status.reason # NoReason) <=> (status.value = "error")

C1_Witness ==
  /\ lastOp.op = "disconnect"
  /\ lastOp.prev.value = "connecting"
  /\ status = [value |-> "error", reason |-> PermissionDeniedMessage]

\* C2: when an error is raised (updateError with a non-null error) while
\* status is connecting or connected, the same step, which is no disconnect()
\* call, leaves status = error(error.message) and has called client.disconnect,
\* player.stopAll, mic.stop and messageStore.disconnect.
C2_ReactiveFailOver ==
  (Live(lastOp.prev.value) /\ error # Null /\ Has(calls, "onError")) =>
    /\ status = [value |-> "error", reason |-> error.message]
    /\ \A c \in Teardown : Has(calls, c)
    /\ collab = AllStopped
    /\ lastOp.op # "disconnect"

C2_Witness ==
  /\ lastOp.op = "onClientError"
  /\ lastOp.prev.value = "connected"
  /\ error = [type |-> "socket_error", message |-> "lost connection"]
  /\ status = [value |-> "error", reason |-> "lost connection"]
  /\ Has(calls, "mic.stop")

NoTransport(a) ==
  /\ ~Has(a.log, "client.connect")
  /\ ~Has(a.log, "mic.start")
  /\ ~Has(a.log, "player.initPlayer")

PermissionDenied == lastOp.op = "getStreamSettled" /\ lastOp.arg = "denied"

\* C3 (as claimed): when the permission request of a connect() yields denied,
\* the attempt ends in status error('Microphone permission denied') and never
\* invokes client.connect, mic.start or player.initPlayer.
C3_DeniedEndsInError ==
  PermissionDenied =>
    /\ status = [value |-> "error", reason |-> PermissionDeniedMessage]
    /\ NoTransport(lastOp.att)

\* C3 (amended): when the permission request of a connect() yields denied, the
\* attempt raises mic_error 'Microphone permission denied', returns, and never
\* invokes client.connect, mic.start or player.initPlayer; status becomes
\* error('Microphone permission denied') if it was connecting or connected
\* when the request settled, and is left as it was otherwise.
C3_DeniedRaisesMicError ==
  /\ \A a \in Known : Has(a.log, "getStream:denied") => a.pc = "done" /\ NoTransport(a)
  /\ PermissionDenied =>
       /\ Has(lastOp.att.log, "getStream:denied")
       /\ error = [type |-> "mic_error", message |-> PermissionDeniedMessage]
       /\ status = IF Live(lastOp.prev.value)
                   THEN [value |-> "error", reason |-> PermissionDeniedMessage]
                   ELSE lastOp.prev

C3_Witness ==
  /\ PermissionDenied
  /\ lastOp.prev.value = "connecting"
  /\ status = [value |-> "error", reason |-> PermissionDeniedMessage]
  /\ lastOp.att.pc = "done"

TransportRejected == lastOp.op = "clientConnectSettled" /\ lastOp.arg = "rejected"

\* C4 (as claimed): when permission is granted and client.connect rejects, the
\* attempt ends in status error('We could not connect to the voice. Please try
\* again.') and never invokes mic.start or player.initPlayer.
C4_RejectedEndsInError ==
  TransportRejected =>
    /\ status = [value |-> "error", reason |-> ConnectFailedMessage]
    /\ ~Has(lastOp.att.log, "mic.start")
    /\ ~Has(lastOp.att.log, "player.initPlayer")

\* C4 (amended): when permission is granted and client.connect rejects, the
\* attempt raises socket_error 'We could not connect to the voice. Please try
\* again.', returns, and never invokes mic.start or player.initPlayer; status
\* becomes error with that reason if it was connecting or connected when the
\* transport connect settled, and is left as it was otherwise.
C4_RejectedRaisesSocketError ==
  /\ \A a \in Known :
       Has(a.log, "client.connect:rejected") =>
         /\ a.pc = "done"
         /\ Has(a.log, "getStream:granted")
         /\ ~Has(a.log, "mic.start")
         /\ ~Has(a.log, "player.initPlayer")
  /\ TransportRejected =>
       /\ Has(lastOp.att.log, "client.connect:rejected")
       /\ error = [type |-> "socket_error", message |-> ConnectFailedMessage]
       /\ status = IF Live(lastOp.prev.value)
                   THEN [value |-> "error", reason |-> ConnectFailedMessage]
                   ELSE lastOp.prev

C4_Witness ==
  /\ TransportRejected
  /\ lastOp.prev.value = "connecting"
  /\ status = [value |-> "error", reason |-> ConnectFailedMessage]
  /\ lastOp.att.pc = "done"

JoinSettled == lastOp.op \in {"micStartSettled", "playerInitSettled"}

\* C5: status is set to connected only by a connect() attempt whose transport
\* connect succeeded and whose mic.start and player.initPlayer both fulfilled;
\* after a successful transport connect both startups are invoked and the
\* attempt returns only when both have settled; an attempt with exactly one of
\* them rejected does not set status to connected.
C5_ConnectedOnlyAfterBoth ==
  /\ \A a \in Known :
       /\ Has(a.log, "setStatus(connected)") =>
            /\ Has(a.log, "client.connect:ok")
            /\ Has(a.log, "mic.start:fulfilled")
            /\ Has(a.log, "player.initPlayer:fulfilled")
       /\ Has(a.log, "client.connect:ok") =>
            /\ Has(a.log, "mic.start") /\ Has(a.log, "player.initPlayer")
            /\ a.pc = "done" =>
                 /\ Outcome(a.log, "mic.start") # "pending"
                 /\ Outcome(a.log, "player.initPlayer") # "pending"
  /\ (status.value = "connected" /\ lastOp.prev.value # "connected") =>
       JoinSettled /\ Has(lastOp.att.log, "setStatus(connected)")
  /\ (JoinSettled /\ lastOp.att.pc = "done"
        /\ Outcome(lastOp.att.log, "mic.start") # Outcome(lastOp.att.log, "player.initPlayer")) =>
       status = lastOp.prev

C5_Witness ==
  /\ lastOp.op = "playerInitSettled"
  /\ lastOp.arg = "rejected"
  /\ lastOp.att.pc = "done"
  /\ Has(lastOp.att.log, "mic.start:fulfilled")
  /\ status.value = "connecting"

\* C6: every disconnect() call, whatever the status, disconnectOnError and the
\* microphone permission, calls client.disconnect, player.stopAll, mic.stop
\* and messageStore.disconnect, and leaves transport, player and microphone
\* stopped.
C6_DisconnectTearsDown ==
  lastOp.op = "disconnect" =>
    /\ \A c \in Teardown : Has(calls, c)
    /\ collab = AllStopped

C6_Witness ==
  /\ lastOp.op = "disconnect"
  /\ lastOp.prev.value = "connected"
  /\ Has(calls, "mic.stop")
  /\ collab = AllStopped

\* C7: with microphone permission denied, disconnect() leaves status =
\* error('Microphone permission denied') whatever the prior status and
\* disconnectOnError.
C7_DeniedForcesError ==
  (lastOp.op = "disconnect" /\ micPermission = "denied") =>
    status = [value |-> "error", reason |-> PermissionDeniedMessage]

\* C8: with microphone permission not denied, disconnect(disconnectOnError)
\* leaves an error status as it is (same reason), leaves the status unchanged
\* when disconnectOnError is true, and sets it to disconnected otherwise.
C8_DisconnectStatus ==
  (lastOp.op = "disconnect" /\ micPermission # "denied") =>
    status = IF lastOp.prev.value = "error" THEN lastOp.prev
             ELSE IF lastOp.arg = "true" THEN lastOp.prev
             ELSE [value |-> "disconnected", reason |-> NoReason]

C8_Witness ==
  /\ lastOp.op = "disconnect"
  /\ lastOp.arg = "true"
  /\ micPermission = "granted"
  /\ lastOp.prev.value = "connected"
  /\ status.value = "connected"

\* C9: in every connect() attempt, error is cleared and status set to
\* connecting before getStream is issued, client.connect is invoked only after
\* getStream returned granted, and mic.start and player.initPlayer only after
\* client.connect succeeded.
C9_ConnectOrder ==
  /\ \A a \in Known :
       a.pc # "none" =>
         /\ Len(a.log) >= 3
         /\ SubSeq(a.log, 1, 3) = <<"updateError(null)", "setStatus(connecting)", "getStream">>
         /\ Has(a.log, "client.connect") =>
              /\ Has(a.log, "getStream:granted")
              /\ ~Has(a.log, "getStream:denied")
              /\ Pos(a.log, "getStream:granted") < Pos(a.log, "client.connect")
         /\ \A c \in {"mic.start", "player.initPlayer"} :
              Has(a.log, c) =>
                /\ Has(a.log, "client.connect:ok")
                /\ Pos(a.log, "client.connect") < Pos(a.log, "client.connect:ok")
                /\ Pos(a.log, "client.connect:ok") < Pos(a.log, c)
  /\ lastOp.op = "connect" =>
       /\ error = Null
       /\ status = [value |-> "connecting", reason |-> NoReason]
       /\ calls = <<"getStream">>

C9_Witness ==
  \E k \in 1..Len(attempts) :
    /\ attempts[k].pc = "join"
    /\ Has(attempts[k].log, "mic.start")
    /\ Has(attempts[k].log, "player.initPlayer:fulfilled")

FullySucceeded(a) ==
  /\ Has(a.log, "getStream:granted")
  /\ Has(a.log, "client.connect:ok")
  /\ Has(a.log, "mic.start:fulfilled")
  /\ Has(a.log, "player.initPlayer:fulfilled")

\* C10: a connect() whose permission request is granted, whose transport
\* connect succeeds and whose mic.start and player.initPlayer both fulfil,
\* with no error raised and no disconnect() called while it was in flight,
\* leaves status connected and error null when the last of them has settled.
C10_CleanConnectConnects ==
  (JoinSettled /\ lastOp.att.pc = "done" /\ lastOp.att.clean /\ FullySucceeded(lastOp.att)) =>
    /\ Has(lastOp.att.log, "setStatus(connected)")
    /\ status = [value |-> "connected", reason |-> NoReason]
    /\ error = Null

C10_Witness ==
  /\ JoinSettled
  /\ lastOp.att.pc = "done"
  /\ lastOp.att.clean
  /\ FullySucceeded(lastOp.att)
  /\ status.value = "connected"
  /\ error = Null

CallbackOps == {"onClientError", "onPlayerError", "onMicError"}
Count(cs, c) == Cardinality({k \in 1..Len(cs) : cs[k] = c})

\* C11: error, once non-null, becomes null only by a connect() call, whose
\* prologue clears it; a step that calls updateError with no error value -
\* a disconnect(), a continuation that raises nothing, the fail-over effect
\* it ends with - leaves error as it was.
C11_ErrorKeptUntilConnect ==
  [][/\ (error # Null /\ error' = Null) => lastOp'.op = "connect"
     /\ lastOp'.op = "connect" => error' = Null
     /\ lastOp'.op = "disconnect" => error' = error
     /\ (lastOp'.op # "connect" /\ ~Has(calls', "onError")) => error' = error]_vars

C11_Witness ==
  /\ lastOp.op = "disconnect"
  /\ lastOp.prev.value = "error"
  /\ error = [type |-> "socket_error", message |-> "lost connection"]
  /\ status = [value |-> "error", reason |-> "lost connection"]

\* C12 (as claimed): whenever status is error and error is non-null,
\* status.reason is the message of the current error, also when a second
\* error arrives while status is already error.
C12_ReasonIsLatestError ==
  (status.value = "error" /\ error # Null) => status.reason = error.message

\* C12 (amended): when the fail-over fires, status.reason becomes the message
\* of the error current at that moment; an error raised while status is
\* already error replaces error and leaves status, with its reason, as it was.
C12_ReasonIsErrorAtFailOver ==
  /\ (lastOp.op # "disconnect" /\ Has(calls, "client.disconnect")) =>
       /\ error # Null
       /\ status = [value |-> "error", reason |-> error.message]
  /\ (lastOp.prev.value = "error" /\ Has(calls, "onError")) =>
       /\ status = lastOp.prev
       /\ ~Has(calls, "client.disconnect")

C12_Witness ==
  /\ lastOp.op = "getStreamSettled"
  /\ lastOp.arg = "denied"
  /\ lastOp.prev = [value |-> "error", reason |-> "lost connection"]
  /\ error = [type |-> "mic_error", message |-> PermissionDeniedMessage]
  /\ status = [value |-> "error", reason |-> "lost connection"]

\* C13: a step calls onError once for each non-null error it passes to
\* updateError and leaves that error as the current one: once in a
\* collaborator's onError callback, on a denied permission and on a rejected
\* transport connect, and not at all otherwise, in particular not when
\* connect() clears the error.
C13_OnErrorOncePerError ==
  /\ Count(calls, "onError") =
       IF lastOp.op \in CallbackOps \/ PermissionDenied \/ TransportRejected THEN 1 ELSE 0
  /\ Has(calls, "onError") => error # Null
  /\ lastOp.op \in CallbackOps => error.message = lastOp.arg
  /\ lastOp.op = "connect" => error = Null

C13_Witness ==
  /\ lastOp.op = "onPlayerError"
  /\ Count(calls, "onError") = 1
  /\ error = [type |-> "audio_error", message |-> "lost connection"]

\* C14: no automatic retry.  Each connect() call issues getStream once, in
\* its prologue, and client.connect at most once, when its getStream returned
\* granted; no other step issues either.  A call whose permission was denied
\* or whose transport connect was rejected has returned.  While an error is
\* recorded, a status of error stays error through every step that is not a
\* connect() or disconnect() call of the consumer.
C14_NoAutomaticRetry ==
  /\ \A a \in Known :
       /\ a.pc # "none" => Count(a.log, "getStream") = 1
       /\ Count(a.log, "client.connect") <= 1
       /\ (Has(a.log, "getStream:denied") \/ Has(a.log, "client.connect:rejected")) =>
            a.pc = "done"
  /\ Has(calls, "getStream") => lastOp.op = "connect" /\ Count(calls, "getStream") = 1
  /\ Has(calls, "client.connect") =>
       /\ lastOp.op = "getStreamSettled"
       /\ lastOp.arg = "granted"
       /\ Count(calls, "client.connect") = 1
  /\ (lastOp.prev.value = "error" /\ error # Null
        /\ lastOp.op \notin {"connect", "disconnect"}) =>
       status.value = "error"

C14_Witness ==
  /\ TransportRejected
  /\ lastOp.att.pc = "done"
  /\ Count(lastOp.att.log, "client.connect") = 1
  /\ status = [value |-> "error", reason |-> ConnectFailedMessage]
  /\ \A k \in 1..Len(attempts) : attempts[k].pc = "done"

\* C15: disconnect() tears the collaborators down and leaves every connect()
\* call in flight where it is, with the steps it has still to run; such a
\* call goes on when its await settles and can set status to connected after
\* the disconnect() returned.
C15_DisconnectDoesNotCancel ==
  [][lastOp'.op = "disconnect" =>
       /\ \A c \in Teardown : Has(calls', c)
       /\ Len(attempts') = Len(attempts)
       /\ \A k \in 1..Len(attempts) :
            /\ attempts'[k].pc = attempts[k].pc
            /\ attempts'[k].log = attempts[k].log]_vars

C15_Witness ==
  /\ JoinSettled
  /\ lastOp.prev.value = "disconnected"
  /\ Has(lastOp.att.log, "setStatus(connected)")
  /\ ~lastOp.att.clean
  /\ status.value = "connected"

\* C16: connect() has no reentrancy guard.  A further connect() can be called
\* whatever the calls in flight are doing, and each call in flight can take
\* its next step whatever the others are doing.  When two overlapping calls
\* both fail, the one whose failure settles first gives status its reason and
\* the one whose failure settles last gives error its value, so the same two
\* failures end in different status/error pairs in the two orders.
C16_OverlappingConnectsRace ==
  /\ Len(attempts) < MaxAttempts => ENABLED Connect
  /\ \A i \in 1..Len(attempts) :
       /\ attempts[i].pc = "getStream" => ENABLED GetStreamSettles(i)
       /\ attempts[i].pc = "clientConnect" => ENABLED ClientConnectSettles(i)
  /\ (PermissionDenied /\ lastOp.prev.value = "error") =>
       /\ status = lastOp.prev
       /\ error = [type |-> "mic_error", message |-> PermissionDeniedMessage]
  /\ (TransportRejected /\ lastOp.prev.value = "error") =>
       /\ status = lastOp.prev
       /\ error = [type |-> "socket_error", message |-> ConnectFailedMessage]
  /\ (PermissionDenied /\ Live(lastOp.prev.value)) =>
       status = [value |-> "error", reason |-> PermissionDeniedMessage]
  /\ (TransportRejected /\ Live(lastOp.prev.value)) =>
       status = [value |-> "error", reason |-> ConnectFailedMessage]

\* The first call's permission request is denied after a later call's
\* transport connect was rejected.
C16_Witness ==
  /\ PermissionDenied
  /\ lastOp.id = 1
  /\ lastOp.prev = [value |-> "error", reason |-> ConnectFailedMessage]
  /\ status = [value |-> "error", reason |-> ConnectFailedMessage]
  /\ error = [type |-> "mic_error", message |-> PermissionDeniedMessage]

\* The same two failures in the other order.
C16_OtherOrder ==
  /\ TransportRejected
  /\ lastOp.id = 2
  /\ lastOp.prev = [value |-> "error", reason |-> PermissionDeniedMessage]
  /\ status = [value |-> "error", reason |-> PermissionDeniedMessage]
  /\ error = [type |-> "socket_error", message |-> ConnectFailedMessage]

\* The transport connect invoked twice with no disconnect in between.
C16_TwoTransportConnects ==
  /\ Len(attempts) >= 2
  /\ attempts[1].pc = "clientConnect"
  /\ attempts[2].pc = "clientConnect"
  /\ attempts[1].clean
  /\ attempts[2].clean

\* C17: a connect() call whose transport connect succeeded and whose join
\* settles with mic.start or player.initPlayer rejected returns having set
\* neither status nor error and having called nothing.  Once no call is in
\* flight, status connecting with error null is left only by a connect() or
\* disconnect() call or by a collaborator's error callback.
C17_RejectedStartupLeavesConnecting ==
  [][/\ (/\ lastOp'.op \in {"micStartSettled", "playerInitSettled"}
         /\ lastOp'.att.pc = "done"
         /\ ~FullySucceeded(lastOp'.att)) =>
          /\ Has(lastOp'.att.log, "client.connect:ok")
          /\ ~Has(lastOp'.att.log, "setStatus(connected)")
          /\ status' = status
          /\ error' = error
          /\ calls' = <<>>
     /\ (/\ status.value = "connecting"
         /\ error = Null
         /\ \A k \in 1..Len(attempts) : ~InFlight(attempts[k])) =>
          \/ status' = status /\ error' = error
          \/ lastOp'.op \in {"connect", "disconnect"} \cup CallbackOps]_vars

C17_Witness ==
  /\ JoinSettled
  /\ lastOp.att.pc = "done"
  /\ ~FullySucceeded(lastOp.att)
  /\ status = [value |-> "connecting", reason |-> NoReason]
  /\ error = Null
  /\ \A k \in 1..Len(attempts) : ~InFlight(attempts[k])

\* C18: error is null or of one of the three kinds.  The voice client's
\* onError records a socket_error, the sound player's an audio_error and the
\* microphone's a mic_error, each with the message the collaborator gave;
\* a denied permission records mic_error 'Microphone permission denied' and a
\* rejected transport connect socket_error 'We could not connect to the
\* voice. Please try again.'; each of them goes through updateError, which
\* calls onError.
C18_ErrorsClassified ==
  /\ error.type \in {"null", "socket_error", "audio_error", "mic_error"}
  /\ error.type = "null" <=> error = Null
  /\ lastOp.op = "onClientError" =>
       error = [type |-> "socket_error", message |-> lastOp.arg]
  /\ lastOp.op = "onPlayerError" =>
       error = [type |-> "audio_error", message |-> lastOp.arg]
  /\ lastOp.op = "onMicError" =>
       error = [type |-> "mic_error", message |-> lastOp.arg]
  /\ PermissionDenied =>
       error = [type |-> "mic_error", message |-> PermissionDeniedMessage]
  /\ TransportRejected =>
       error = [type |-> "socket_error", message |-> ConnectFailedMessage]
  /\ (lastOp.op \in CallbackOps \/ PermissionDenied \/ TransportRejected) =>
       Has(calls, "onError")

C18_Witness ==
  /\ lastOp.op = "onPlayerError"
  /\ lastOp.arg = "decode failed"
  /\ lastOp.prev.value = "connected"
  /\ error = [type |-> "audio_error", message |-> "decode failed"]
  /\ status = [value |-> "error", reason |-> "decode failed"]

\* C19: while an error is recorded, status is error or disconnected, never
\* connecting or connected.  When a connect() call sets status to connected
\* while an error is recorded, the same step ends with status error carrying
\* that error's message and with the collaborators torn down.
C19_NoLiveStatusWithError ==
  /\ error # Null => status.value \in {"error", "disconnected"}
  /\ (JoinSettled /\ Has(lastOp.att.log, "setStatus(connected)") /\ error # Null) =>
       /\ status = [value |-> "error", reason |-> error.message]
       /\ \A c \in Teardown : Has(calls, c)
       /\ collab = AllStopped

C19_Witness ==
  /\ JoinSettled
  /\ Has(lastOp.att.log, "setStatus(connected)")
  /\ error # Null
  /\ lastOp.prev.value = "disconnected"
  /\ status = [value |-> "error", reason |-> error.message]
  /\ collab = AllStopped

\* C20 (as claimed): whenever status is connected, the transport is
\* connected, the microphone is started and the player is initialised.
C20_ConnectedImpliesLive ==
  status.value = "connected" => collab.client /\ collab.mic /\ collab.player

====
